---------------------------- MODULE Spec2Model ----------------------------
(***************************************************************************)
(* The Synacor virtual machine of package synacor (src/main.go, the        *)
(* complete variant: Machine, Stack, Step, Run).  One action per opcode    *)
(* handler of Machine.Step, taken under the loop condition of Machine.Run. *)
(* Values are Go uint16: arithmetic wraps modulo 2^16.  A Go runtime panic *)
(* (index out of range, slice bounds, integer divide by zero) ends the     *)
(* process and is recorded in the variable panicked.                       *)
(***************************************************************************)
EXTENDS Integers, Sequences, FiniteSets, TLC

VARIABLES
    memory,        \* m.memory: the non-zero cells of the 32768-word array
    regs,          \* m.regs: 8 uint16 registers, indexed 0..7
    pc,            \* m.pc
    stack,         \* m.stack.data, top at the end
    state,         \* m.state: RUNNING, HALTED or ERROR
    unused_input,  \* m.unused_input
    stdin_eof,     \* m.input (os.Stdin) has reached end of file
    output,        \* everything written to os.Stdout, in order
    panicked,      \* "" or the Go runtime panic that ended the process
    steps,         \* number of calls of Step made by Run
    last,          \* history: pc, registers and stack before the last Step,
                   \* and the opcode it fetched (-1: none)
    io             \* history: the runes ReadString has supplied so far and
                   \* the values IN has stored so far

vars == <<memory, regs, pc, stack, state, unused_input, stdin_eof, output,
          panicked, steps, last, io>>

---------------------------------------------------------------------------
(* Program constants *)

NREGS == 8
MAX_15BIT == 32767
\* Mutant: reduction modulo MAX_15BIT
OVERFLOW_15BIT_off == MAX_15BIT
OVERFLOW_15BIT == 32768
MAX_REG == MAX_15BIT + 8
MEMSIZE == 32768
UINT16 == 65536

RUNNING == 0
HALTED == 1
ERROR == 2

HALT == 0
SET == 1
PUSH == 2
POP == 3
EQ == 4
GT == 5
JMP == 6
JT == 7
JF == 8
ADD == 9
MULT == 10
MOD == 11
AND == 12
OR == 13
NOT == 14
RMEM == 15
WMEM == 16
CALL == 17
RET == 18
OUT == 19
IN_OP == 20      \* IN (a reserved word of TLA+)
NOOP == 21

(* Bounds of the model *)

MaxSteps == 4
MaxLineLen == 2

---------------------------------------------------------------------------
(* uint16 arithmetic and bit operations *)

U16(x) == x % UINT16

RECURSIVE BitAnd(_, _)
BitAnd(a, b) ==
    IF a = 0 \/ b = 0 THEN 0
    ELSE (a % 2) * (b % 2) + 2 * BitAnd(a \div 2, b \div 2)

RECURSIVE BitOr(_, _)
BitOr(a, b) ==
    IF a = 0 THEN b
    ELSE IF b = 0 THEN a
    ELSE (IF a % 2 = 1 \/ b % 2 = 1 THEN 1 ELSE 0)
         + 2 * BitOr(a \div 2, b \div 2)

\* Mutant: the 16-bit complement of a
BitXor_16(a, b) == UINT16 - 1 - a

RECURSIVE BitXor(_, _)
BitXor(a, b) ==
    IF a = 0 THEN b
    ELSE IF b = 0 THEN a
    ELSE (IF a % 2 # b % 2 THEN 1 ELSE 0)
         + 2 * BitXor(a \div 2, b \div 2)

---------------------------------------------------------------------------
(* Operand decoding *)

argsForOp(op) ==
    CASE op = HALT -> 0
      [] op = SET  -> 2
      [] op = PUSH -> 1
      [] op = POP  -> 1
      [] op = EQ   -> 3
      [] op = GT   -> 3
      [] op = JMP  -> 1
      [] op = JT   -> 2
      [] op = JF   -> 2
      [] op = ADD  -> 3
      [] op = MULT -> 3
      [] op = MOD  -> 3
      [] op = AND  -> 3
      [] op = OR   -> 3
      [] op = NOT  -> 2
      [] op = RMEM -> 2
      [] op = WMEM -> 2
      [] op = CALL -> 1
      [] op = RET  -> 0
      [] op = OUT  -> 1
      [] op = IN_OP -> 1
      [] op = NOOP -> 0
      [] OTHER     -> 0      \* a missing map key yields the zero value

\* Mutant: the last register word is left out
isReg_strict(arg) == MAX_15BIT < arg /\ arg < MAX_REG

isReg(arg) == MAX_15BIT < arg /\ arg <= MAX_REG

isValue(arg) == arg <= MAX_15BIT

\* Mutant: the register index counted down from MAX_REG
decipherReg_reversed(arg) == U16(MAX_REG + UINT16 - arg)

decipherReg(arg) == U16(arg + UINT16 - MAX_15BIT - 1)

---------------------------------------------------------------------------
(* Stack *)

NewStack == << >>

Push(s, v) == Append(s, v)

IsEmpty(s) == Len(s) = 0

\* Mutant: no test for the empty stack, a zero value is popped
Pop_unchecked(s) ==
    IF Len(s) = 0
    THEN [v |-> 0, ok |-> TRUE, data |-> s]
    ELSE [v |-> s[Len(s)], ok |-> TRUE, data |-> SubSeq(s, 1, Len(s) - 1)]

\* Mutant: the slice is cut one element too short (data[:len-2])
Pop_short(s) ==
    IF Len(s) = 0
    THEN [v |-> 0, ok |-> FALSE, data |-> s]
    ELSE [v |-> s[Len(s)], ok |-> TRUE, data |-> SubSeq(s, 1, Len(s) - 2)]

\* Pop returns (v, ok) and the shortened slice.
Pop(s) ==
    IF IsEmpty(s)
    THEN [v |-> 0, ok |-> FALSE, data |-> s]
    ELSE [v |-> s[Len(s)], ok |-> TRUE, data |-> SubSeq(s, 1, Len(s) - 1)]

---------------------------------------------------------------------------
(* Memory: a 32768-word array, represented by its non-zero cells *)

cell(m, a) == IF a \in DOMAIN m THEN m[a] ELSE 0

store(m, a, v) ==
    IF v = 0
    THEN [x \in DOMAIN m \ {a} |-> m[x]]
    ELSE [x \in DOMAIN m \cup {a} |-> IF x = a THEN v ELSE m[x]]

\* make([]uint16, 32768) followed by copy(m.memory, prog)
LoadImage(prog) ==
    [a \in {i - 1 : i \in {j \in 1..Len(prog) : j <= MEMSIZE /\ prog[j] # 0}}
        |-> prog[a + 1]]

---------------------------------------------------------------------------
(* Standard output: one entry per Print call, in order *)

\* Mutant: the low byte of v
Rune_lowbyte(v) == v % 256

\* fmt.Printf("%c", v): the code point v; a surrogate prints as U+FFFD
Rune(v) == IF v >= 55296 /\ v <= 57343 THEN 65533 ELSE v

OutChar(v) == [fmt |-> "%c", arg |-> Rune(v)]

Prompt == [fmt |-> "Input: ", arg |-> 0]

InvalidArgument(arg) == [fmt |-> "Invalid Argument '%d'.", arg |-> arg]

PoppedEmpty == [fmt |-> "Popped an empty stack.", arg |-> 0]

\* opsToString has no entry for an unknown opcode: %q prints ""
Unimplemented == [fmt |-> "UNIMPLEMENTED INSTRUCTION %q.", arg |-> 0]

---------------------------------------------------------------------------
(* Machine *)

Halted == state # RUNNING

\* readArg returns a value; on an invalid argument it calls m.Error (err,
\* with the message printed) and returns 0.
readArg(arg) ==
    IF isValue(arg)
    THEN [v |-> arg, err |-> FALSE, msgs |-> << >>]
    ELSE IF isReg(arg)
    THEN [v |-> regs[decipherReg(arg)], err |-> FALSE, msgs |-> << >>]
    ELSE [v |-> 0, err |-> TRUE, msgs |-> <<InvalidArgument(arg)>>]

\* op := m.memory[m.pc] is in range
FetchOK == pc < MEMSIZE

op == cell(memory, pc)

\* the slice m.memory[m.pc+1 : m.pc+1+n] is within the 32768 words
getArgsOK(o) ==
    \/ argsForOp(o) = 0
    \/ /\ U16(pc + 1) <= U16(pc + 1 + argsForOp(o))
       /\ U16(pc + 1 + argsForOp(o)) <= MEMSIZE

\* args[i] here is args[i-1] of the source
getArgs(o) == [i \in 1..argsForOp(o) |-> cell(memory, pc + i)]

args == getArgs(op)

\* Mutant: the opcode word itself is not counted
nextProgramCounter_short(o) == U16(pc + argsForOp(o))

\* Mutant: the operands are not counted
nextProgramCounter_fixed(o) == U16(pc + 1)

nextProgramCounter(o) == U16(pc + 1 + argsForOp(o))

\* m.Error sets the state; m.state is otherwise left as it is
Error(err) == IF err THEN ERROR ELSE state

\* Run calls Step while the machine is not halted and the process lives
CanStep == ~Halted /\ panicked = "" /\ steps < MaxSteps

Decoded(o) == CanStep /\ FetchOK /\ op = o /\ getArgsOK(o)

\* The history of one more call of Step
Called ==
    /\ steps' = steps + 1
    /\ last' = [op |-> IF FetchOK THEN op ELSE -1, pc |-> pc, regs |-> regs,
                stack |-> stack]

NoInput == UNCHANGED <<unused_input, stdin_eof, io>>

\* Step returns with these values of the machine's fields
Commit(r, m, s, p, st, out) ==
    /\ regs' = r
    /\ memory' = m
    /\ stack' = s
    /\ pc' = p
    /\ state' = st
    /\ output' = out
    /\ panicked' = ""
    /\ Called

\* A runtime panic ends the process: the machine is gone, what was printed
\* stays printed.
RuntimePanic(reason, out) ==
    /\ panicked' = reason
    /\ output' = out
    /\ Called
    /\ UNCHANGED <<memory, regs, pc, stack, state>>

\* A panic whose order with respect to the calls of readArg in the same
\* statement is not fixed by the language: msgs may or may not be printed.
RuntimePanicUnordered(reason, out, msgs) ==
    \E printed \in BOOLEAN :
        RuntimePanic(reason, IF printed THEN out \o msgs ELSE out)

\* if isReg(a) { m.regs[decipherReg(a)] = v } else { m.memory[a] = v }
WriteDest(a, v, s, st, out) ==
    IF isReg(a)
    THEN Commit([regs EXCEPT ![decipherReg(a)] = v], memory, s,
                nextProgramCounter(op), st, out)
    ELSE IF a < MEMSIZE
    THEN Commit(regs, store(memory, a, v), s, nextProgramCounter(op), st, out)
    ELSE RuntimePanic("index out of range", out)

NewMachine(prog) ==
    /\ memory = LoadImage(prog)
    /\ regs = [r \in 0..(NREGS - 1) |-> 0]
    /\ pc = 0
    /\ stack = NewStack
    /\ state = RUNNING
    /\ unused_input = << >>
    /\ stdin_eof = FALSE
    /\ output = << >>
    /\ panicked = ""

---------------------------------------------------------------------------
(* Machine.Step, one action per case of the switch *)

\* op := m.memory[m.pc] or the slice of getArgs is out of range
StepFetchPanic ==
    /\ CanStep
    /\ \/ /\ ~FetchOK
          /\ RuntimePanic("index out of range", output)
       \/ /\ FetchOK
          /\ ~getArgsOK(op)
          /\ RuntimePanic("slice bounds out of range", output)
    /\ NoInput

\* Mutant: HALT also advances the program counter
StepHALT_advance ==
    /\ Decoded(HALT)
    /\ Commit(regs, memory, stack, nextProgramCounter(op), HALTED, output)
    /\ NoInput

StepHALT ==
    /\ Decoded(HALT)
    /\ Commit(regs, memory, stack, pc, HALTED, output)
    /\ NoInput

StepSET ==
    /\ Decoded(SET)
    /\ LET b == readArg(args[2]) IN
         IF decipherReg(args[1]) < NREGS
         THEN Commit([regs EXCEPT ![decipherReg(args[1])] = b.v], memory,
                     stack, nextProgramCounter(op), Error(b.err),
                     output \o b.msgs)
         ELSE RuntimePanicUnordered("index out of range", output, b.msgs)
    /\ NoInput

StepPUSH ==
    /\ Decoded(PUSH)
    /\ LET a == readArg(args[1]) IN
         Commit(regs, memory, Push(stack, a.v), nextProgramCounter(op),
                Error(a.err), output \o a.msgs)
    /\ NoInput

StepPOP ==
    /\ Decoded(POP)
    /\ LET p == Pop(stack) IN
         IF ~p.ok
         THEN Commit(regs, memory, p.data, pc, ERROR,
                     Append(output, PoppedEmpty))
         ELSE WriteDest(args[1], p.v, p.data, state, output)
    /\ NoInput

StepEQ ==
    /\ Decoded(EQ)
    /\ LET b == readArg(args[2])
           c == readArg(args[3])
           eq == IF b.v = c.v THEN 1 ELSE 0
       IN WriteDest(args[1], eq, stack, Error(b.err \/ c.err),
                    output \o b.msgs \o c.msgs)
    /\ NoInput

StepGT ==
    /\ Decoded(GT)
    /\ LET b == readArg(args[2])
           c == readArg(args[3])
           gt == IF b.v > c.v THEN 1 ELSE 0
       IN WriteDest(args[1], gt, stack, Error(b.err \/ c.err),
                    output \o b.msgs \o c.msgs)
    /\ NoInput

StepJMP ==
    /\ Decoded(JMP)
    /\ LET a == readArg(args[1]) IN
         Commit(regs, memory, stack, a.v, Error(a.err), output \o a.msgs)
    /\ NoInput

StepJT ==
    /\ Decoded(JT)
    /\ LET a == readArg(args[1])
           b == readArg(args[2])
       IN IF a.v # 0
          THEN Commit(regs, memory, stack, b.v, Error(a.err \/ b.err),
                      output \o a.msgs \o b.msgs)
          ELSE Commit(regs, memory, stack, nextProgramCounter(op),
                      Error(a.err), output \o a.msgs)
    /\ NoInput

StepJF ==
    /\ Decoded(JF)
    /\ LET a == readArg(args[1])
           b == readArg(args[2])
       IN IF a.v = 0
          THEN Commit(regs, memory, stack, b.v, Error(a.err \/ b.err),
                      output \o a.msgs \o b.msgs)
          ELSE Commit(regs, memory, stack, nextProgramCounter(op),
                      Error(a.err), output \o a.msgs)
    /\ NoInput

StepADD ==
    /\ Decoded(ADD)
    /\ LET b == readArg(args[2])
           c == readArg(args[3])
           a == U16(b.v + c.v) % OVERFLOW_15BIT
       IN WriteDest(args[1], a, stack, Error(b.err \/ c.err),
                    output \o b.msgs \o c.msgs)
    /\ NoInput

StepMULT ==
    /\ Decoded(MULT)
    /\ LET b == readArg(args[2])
           c == readArg(args[3])
           a == U16(b.v * c.v) % OVERFLOW_15BIT
       IN WriteDest(args[1], a, stack, Error(b.err \/ c.err),
                    output \o b.msgs \o c.msgs)
    /\ NoInput

StepMOD ==
    /\ Decoded(MOD)
    /\ LET b == readArg(args[2])
           c == readArg(args[3])
       IN IF c.v = 0
          THEN RuntimePanic("integer divide by zero",
                            output \o b.msgs \o c.msgs)
          ELSE WriteDest(args[1], b.v % c.v, stack, Error(b.err \/ c.err),
                         output \o b.msgs \o c.msgs)
    /\ NoInput

StepAND ==
    /\ Decoded(AND)
    /\ LET b == readArg(args[2])
           c == readArg(args[3])
       IN WriteDest(args[1], BitAnd(b.v, c.v), stack, Error(b.err \/ c.err),
                    output \o b.msgs \o c.msgs)
    /\ NoInput

StepOR ==
    /\ Decoded(OR)
    /\ LET b == readArg(args[2])
           c == readArg(args[3])
       IN WriteDest(args[1], BitOr(b.v, c.v), stack, Error(b.err \/ c.err),
                    output \o b.msgs \o c.msgs)
    /\ NoInput

StepNOT ==
    /\ Decoded(NOT)
    /\ LET b == readArg(args[2]) IN
         WriteDest(args[1], BitXor(b.v, MAX_15BIT), stack, Error(b.err),
                   output \o b.msgs)
    /\ NoInput

StepRMEM ==
    /\ Decoded(RMEM)
    /\ LET b == readArg(args[2]) IN
         IF decipherReg(args[1]) < NREGS /\ b.v < MEMSIZE
         THEN Commit([regs EXCEPT ![decipherReg(args[1])] = cell(memory, b.v)],
                     memory, stack, nextProgramCounter(op), Error(b.err),
                     output \o b.msgs)
         ELSE RuntimePanicUnordered("index out of range", output, b.msgs)
    /\ NoInput

StepWMEM ==
    /\ Decoded(WMEM)
    /\ LET a == readArg(args[1])
           b == readArg(args[2])
       IN IF a.v < MEMSIZE
          THEN Commit(regs, store(memory, a.v, b.v), stack,
                      nextProgramCounter(op), Error(a.err \/ b.err),
                      output \o a.msgs \o b.msgs)
          ELSE RuntimePanicUnordered("index out of range", output, b.msgs)
    /\ NoInput

StepCALL ==
    /\ Decoded(CALL)
    /\ LET a == readArg(args[1]) IN
         Commit(regs, memory, Push(stack, nextProgramCounter(op)), a.v,
                Error(a.err), output \o a.msgs)
    /\ NoInput

StepRET ==
    /\ Decoded(RET)
    /\ LET p == Pop(stack) IN
         IF p.ok
         THEN Commit(regs, memory, p.data, p.v, state, output)
         ELSE Commit(regs, memory, p.data, pc, ERROR,
                     Append(output, PoppedEmpty))
    /\ NoInput

StepOUT ==
    /\ Decoded(OUT)
    /\ LET a == readArg(args[1]) IN
         Commit(regs, memory, stack, nextProgramCounter(op), Error(a.err),
                Append(output \o a.msgs, OutChar(a.v)))
    /\ NoInput

\* default: m.Error, and no return before the update of m.pc
StepDefault ==
    /\ CanStep
    /\ FetchOK
    /\ op > NOOP
    /\ getArgsOK(op)
    /\ Commit(regs, memory, stack, nextProgramCounter(op), ERROR,
              Append(output, Unimplemented))
    /\ NoInput

StepNOOP ==
    /\ Decoded(NOOP)
    /\ Commit(regs, memory, stack, nextProgramCounter(op), state, output)
    /\ NoInput

---------------------------------------------------------------------------
(* Standard input *)

NEWLINE == 10

\* Code points the terminal may supply: 'a', U+FF21 (above 32767) and
\* U+10041 (above 65535)
InputRunes == {97, 65313, 65601}

SeqsUpTo(S, n) == UNION {[1..k -> S] : k \in 0..n}

\* m.input.ReadString('\n'): a line with its newline, or at end of file what
\* is left (possibly nothing); the error is dropped
CompleteLines ==
    {Append(l, NEWLINE) : l \in SeqsUpTo(InputRunes, MaxLineLen - 1)}

LastLines == SeqsUpTo(InputRunes, MaxLineLen - 1)

\* Mutant: the runes of the line are buffered last first
ToUint16s_reversed(line) ==
    [i \in 1..Len(line) |-> U16(line[Len(line) + 1 - i])]

\* for _, c := range input { append(m.unused_input, uint16(c)) }
ToUint16s(line) == [i \in 1..Len(line) |-> U16(line[i])]

\* the destination write, given the runes just read (none without a
\* refill) and the buffer after the refill
InStore(line, buf, out) ==
    IF Len(buf) = 0
    THEN /\ RuntimePanicUnordered("index out of range", out,
                                  IF isReg(args[1]) THEN << >>
                                  ELSE readArg(args[1]).msgs)
         /\ unused_input' = buf
         /\ io' = [io EXCEPT !.supplied = @ \o line]
    ELSE /\ IF isReg(args[1])
            THEN Commit([regs EXCEPT ![decipherReg(args[1])] = buf[1]],
                        memory, stack, nextProgramCounter(op), state, out)
            ELSE LET a == readArg(args[1]) IN
                   Commit(regs, store(memory, a.v, buf[1]), stack,
                          nextProgramCounter(op), Error(a.err),
                          out \o a.msgs)
         /\ unused_input' = Tail(buf)
         /\ io' = [supplied |-> io.supplied \o line,
                   stored |-> Append(io.stored, buf[1])]

StepIN ==
    /\ Decoded(IN_OP)
    /\ IF Len(unused_input) = 0
       THEN IF stdin_eof
            THEN /\ InStore(<< >>, << >>, Append(output, Prompt))
                 /\ UNCHANGED stdin_eof
            ELSE \/ \E line \in CompleteLines :
                       /\ InStore(line, ToUint16s(line),
                                  Append(output, Prompt))
                       /\ UNCHANGED stdin_eof
                 \/ \E line \in LastLines :
                       /\ InStore(line, ToUint16s(line),
                                  Append(output, Prompt))
                       /\ stdin_eof' = TRUE
       ELSE /\ InStore(<< >>, unused_input, output)
            /\ UNCHANGED stdin_eof

---------------------------------------------------------------------------
(* Program images *)

\* Words used as operands: literals, registers 0, 1 and 7, invalid words
OperandWords == {0, 2, 32767, 32768, 32769, 32775, 32776, 65535}

\* Every opcode, and one word that is no opcode
OpWords == HALT..(NOOP + 1)

\* One encoded instruction: an opcode word and its operand words
Instrs ==
    UNION {{<<o>> \o w : w \in [1..argsForOp(o) -> OperandWords]} :
           o \in OpWords}

\* A first instruction that leaves a register or the stack non-zero:
\* r1 := memory[1] (the word 32769), r0 := 32767, push 2, r0 := 2
Setups ==
    {<< >>, <<RMEM, 32769, 1>>, <<SET, 32768, 32767>>, <<PUSH, 2>>,
     <<SET, 32768, 2>>}

\* The programs of the specification's scenarios, a call and return, a push
\* and pop, loops around IN and OUT, and jumps to the end of memory
Scenarios ==
    {<<ADD, 32768, 32769, 4, OUT, 32768, 0>>,
     <<NOOP, HALT>>,
     <<POP, 32768>>,
     <<RET>>,
     <<CALL, 3, HALT, RET>>,
     <<CALL, 32768, HALT, RET>>,
     <<PUSH, 7, POP, 32768>>,
     <<PUSH, 7, PUSH, 9, POP, 32768, POP, 32769>>,
     <<IN_OP, 32768, JMP, 0>>,
     <<IN_OP, 32768, OUT, 32768, JMP, 0>>,
     <<IN_OP, 9, IN_OP, 10, IN_OP, 11, IN_OP, 12>>,
     <<RMEM, 32768, 5, JMP, 32768, 40000>>,
     <<WMEM, 32767, PUSH, JMP, 32767>>,
     <<SET, 32768, 300, OUT, 32768, OUT, 56000>>}

\* Instructions of at most two operands over fewer operand words
ShortOperandWords == {0, 2, 32768, 32776}

ShortInstrs ==
    UNION {{<<o>> \o w : w \in [1..argsForOp(o) -> ShortOperandWords]} :
           o \in {x \in OpWords : argsForOp(x) <= 2}}

\* Literal operands of the arithmetic instructions
ArithValues == {1, 3, 255, 256, 16384, 32766, 32767}

ArithImages ==
    {<<o, 32768, b, c>> : o \in {ADD, MULT, MOD}, b \in ArithValues,
                          c \in ArithValues}

\* Literal operands of NOT
NotValues == {0, 1, 255, 256, 21845, 32766, 32767}

\* r0 := NOT x, r1 := NOT r0
NotImages == {<<NOT, 32768, x, NOT, 32769, 32768>> : x \in NotValues}

\* A set-up and an instruction, two short instructions, an arithmetic
\* instruction on literals, or a scenario; the rest of memory is zero (HALT)
Images ==
    {s \o i : s \in Setups, i \in Instrs}
    \cup {i \o j : i \in ShortInstrs, j \in ShortInstrs}
    \cup ArithImages
    \cup NotImages
    \cup Scenarios

---------------------------------------------------------------------------
(* Specification *)

Init ==
    /\ \E prog \in Images : NewMachine(prog)
    /\ steps = 0
    /\ last = [op |-> -1, pc |-> 0, regs |-> [r \in 0..(NREGS - 1) |-> 0],
               stack |-> << >>]
    /\ io = [supplied |-> << >>, stored |-> << >>]

Next ==
    \/ StepFetchPanic
    \/ StepHALT
    \/ StepSET
    \/ StepPUSH
    \/ StepPOP
    \/ StepEQ
    \/ StepGT
    \/ StepJMP
    \/ StepJT
    \/ StepJF
    \/ StepADD
    \/ StepMULT
    \/ StepMOD
    \/ StepAND
    \/ StepOR
    \/ StepNOT
    \/ StepRMEM
    \/ StepWMEM
    \/ StepCALL
    \/ StepRET
    \/ StepOUT
    \/ StepIN
    \/ StepNOOP
    \/ StepDefault

Spec == Init /\ [][Next]_vars

---------------------------------------------------------------------------
(* Properties *)

\* The operands (1-based) the instruction at pc passes to readArg
ReadOperands ==
    CASE op \in {PUSH, JMP, CALL, OUT} -> {1}
      [] op \in {SET, NOT, RMEM} -> {2}
      [] op \in {EQ, GT, ADD, MULT, MOD, AND, OR} -> {2, 3}
      [] op = WMEM -> {1, 2}
      [] op = JT -> IF readArg(args[1]).v # 0 THEN {1, 2} ELSE {1}
      [] op = JF -> IF readArg(args[1]).v = 0 THEN {1, 2} ELSE {1}
      [] OTHER -> {}

\* Step is about to read-resolve an operand word above 32775
InvalidRead ==
    /\ CanStep
    /\ FetchOK
    /\ getArgsOK(op)
    /\ \E i \in ReadOperands : args[i] > MAX_REG

RegisterWords == (MAX_15BIT + 1)..MAX_REG

\* C1: when Step executes RET with an empty stack, the run state becomes
\* HALTED (not ERROR).
C1_RetOnEmptyStackHalts ==
    [][(Decoded(RET) /\ IsEmpty(stack)) => state' = HALTED]_vars

\* C2: when an instruction read-resolves an operand word >= 32776, Step
\* moves the machine to ERROR and the instruction has no partial effect:
\* registers, memory, stack, pc and the output stream are as before the Step.
C2_InvalidReadHasNoEffect ==
    [][InvalidRead =>
         /\ state' = ERROR
         /\ UNCHANGED <<regs, memory, stack, pc, output>>]_vars

\* Operand words the properties probe: the ends of the three ranges, every
\* register word, and every word the memory holds
ProbeWords ==
    {0, 1, MAX_15BIT - 1, MAX_15BIT, MAX_REG + 1, MAX_REG + 2, 40000,
     UINT16 - 1}
    \cup RegisterWords
    \cup {memory[a] : a \in DOMAIN memory}

\* C3 (resolution): readArg of a word in [0,32767] is the word; of 32768+r,
\* r in [0,7], the contents of register r; of a word >= 32776 it fails.
C3_Resolution ==
    \A w \in ProbeWords :
        /\ w \in 0..MAX_15BIT =>
               readArg(w).v = w /\ ~readArg(w).err
        /\ w \in RegisterWords =>
               readArg(w).v = regs[w - (MAX_15BIT + 1)] /\ ~readArg(w).err
        /\ w > MAX_REG => readArg(w).err

\* C3 (failure): a Step that read-resolves a word >= 32776, and does not
\* panic, leaves the run state ERROR; one that executes a defined opcode
\* other than POP and RET and read-resolves no such word does not set ERROR.
C3_FailureIsError ==
    /\ InvalidRead /\ panicked' = "" => state' = ERROR
    /\ /\ CanStep
       /\ FetchOK
       /\ getArgsOK(op)
       /\ ~InvalidRead
       /\ op <= NOOP
       /\ op \notin {POP, RET, IN_OP}
       => state' # ERROR

\* C3: read resolution (readArg) returns v for v in [0,32767], the contents
\* of register r for 32768+r, and fails with the run state ERROR for every
\* word >= 32776.
C3_ReadResolution == []C3_Resolution /\ [][C3_FailureIsError]_vars

\* C3 witness: an invalid operand was read (ERROR, message printed) in a
\* state where register words resolve to non-zero register contents.
C3_Witness ==
    /\ state = ERROR
    /\ \E i \in 1..Len(output) : output[i].fmt = "Invalid Argument '%d'."
    /\ \E w \in RegisterWords : readArg(w).v # 0

\* C4 (stores): every register and memory cell a Step changes gets a value
\* in [0,32767].
C4_StoresIn15Bits ==
    /\ \A r \in 0..(NREGS - 1) :
           regs'[r] # regs[r] => regs'[r] \in 0..MAX_15BIT
    /\ \A a \in DOMAIN memory' :
           cell(memory', a) # cell(memory, a) => memory'[a] \in 0..MAX_15BIT

\* C4: in every reachable state every register holds a value in [0,32767],
\* and every value a Step stores into a register or a memory cell is in
\* [0,32767].
C4_ValuesIn15Bits ==
    /\ [](\A r \in 0..(NREGS - 1) : regs[r] \in 0..MAX_15BIT)
    /\ [][C4_StoresIn15Bits]_vars

\* C5: once the run state is not RUNNING nothing changes any more, and a Step
\* that ends in ERROR changes nothing but the run state.
C5_TerminalAndAtomic ==
    [][/\ state # RUNNING => UNCHANGED <<state, regs, memory, stack, pc>>
       /\ state = RUNNING /\ state' = ERROR =>
              UNCHANGED <<regs, memory, stack, pc>>]_vars

\* C6: when the word at memory[pc] is none of the opcodes 0..21, Step moves
\* the machine to ERROR and leaves pc, registers, memory and stack unchanged.
C6_UnknownOpcodeStops ==
    [][(CanStep /\ FetchOK /\ op > NOOP) =>
         /\ state' = ERROR
         /\ UNCHANGED <<pc, regs, memory, stack>>]_vars

\* C7 (step): POP on an empty stack sets ERROR and changes no register, no
\* memory cell, not the stack and not pc.
C7_PopEmptyStep ==
    (Decoded(POP) /\ IsEmpty(stack)) =>
        /\ state' = ERROR
        /\ stack' = << >>
        /\ UNCHANGED <<regs, memory, pc>>

\* C7 (scenario): the image [3, 32768] ends in ERROR after one Step with
\* register 0 still 0.
C7_PopEmptyScenario ==
    (memory = LoadImage(<<POP, 32768>>) /\ steps >= 1) =>
        /\ steps = 1
        /\ state = ERROR
        /\ regs[0] = 0
        /\ stack = << >>
        /\ pc = 0

\* C7: POP with an empty stack ends in ERROR with registers, memory, stack
\* and pc unchanged; the image [3, 32768] ends in ERROR with register 0 = 0.
C7_PopOnEmptyStackErrors == []C7_PopEmptyScenario /\ [][C7_PopEmptyStep]_vars

\* C7 witness: the image [3, 32768] after its Step.
C7_Witness ==
    /\ memory = LoadImage(<<POP, 32768>>)
    /\ last.op = POP
    /\ state = ERROR
    /\ output = <<PoppedEmpty>>

\* The value the destination operand a (of the state before the Step) names
\* after the Step
DestAfter(a) ==
    IF isReg(a) THEN regs'[a - (MAX_15BIT + 1)] ELSE cell(memory', a)

\* C8: for resolved operand values b, c in [0,32767], ADD stores
\* (b+c) mod 32768 and MULT stores (b*c) mod 32768 of the unbounded sum and
\* product, a value in [0,32767].
C8_AddMultModular ==
    [][(/\ Decoded(ADD) \/ Decoded(MULT)
        /\ readArg(args[2]).v <= MAX_15BIT
        /\ readArg(args[3]).v <= MAX_15BIT
        /\ panicked' = "") =>
         LET b == readArg(args[2]).v
             c == readArg(args[3]).v
         IN /\ DestAfter(args[1]) =
                   IF op = ADD THEN (b + c) % 32768 ELSE (b * c) % 32768
            /\ DestAfter(args[1]) \in 0..32767]_vars

\* C8 witness: 32767 * 32767, which overflows 16 bits, stored as 1, and
\* 32767 + 32767 stored as 32766.
C8_Witness ==
    \/ /\ memory = LoadImage(<<MULT, 32768, 32767, 32767>>)
       /\ last.op = MULT
       /\ regs[0] = 1
    \/ /\ memory = LoadImage(<<ADD, 32768, 32767, 32767>>)
       /\ last.op = ADD
       /\ regs[0] = 32766

\* The operand word of the instruction executed by the last Step, and the
\* value it resolved to then
LastOperand == cell(memory, last.pc + 1)

LastOperandValue ==
    IF LastOperand <= MAX_15BIT THEN LastOperand
    ELSE last.regs[LastOperand - (MAX_15BIT + 1)]

\* C9 (push, pop): a POP into a register right after a PUSH of a valid
\* operand leaves in the register the value pushed, the stack as it was
\* before the PUSH, and the machine RUNNING.
C9_PushThenPop ==
    (/\ last.op = PUSH
     /\ LastOperand <= MAX_REG
     /\ Decoded(POP)
     /\ isReg(args[1])) =>
        /\ regs'[args[1] - (MAX_15BIT + 1)] = LastOperandValue
        /\ stack' = last.stack
        /\ state' = RUNNING
        /\ panicked' = ""

\* C9 (discipline): PUSH and CALL append one element, POP and RET on a
\* non-empty stack remove the last one, nothing else changes the stack.
C9_StackDiscipline ==
    /\ Decoded(PUSH) => stack' = Append(stack, readArg(args[1]).v)
    /\ Decoded(CALL) => Len(stack') = Len(stack) + 1
                        /\ SubSeq(stack', 1, Len(stack)) = stack
    /\ (Decoded(POP) \/ Decoded(RET)) /\ stack # << >> /\ panicked' = "" =>
           stack' = SubSeq(stack, 1, Len(stack) - 1)
    /\ ~(FetchOK /\ op \in {PUSH, CALL, POP, RET}) => stack' = stack

\* C9: PUSH a; POP r leaves r = read(a), the stack as before and the machine
\* RUNNING; only PUSH and CALL grow the stack by one, only POP and RET shrink
\* it by one, every other instruction leaves it unchanged.
C9_StackIsLifo == [][C9_PushThenPop /\ C9_StackDiscipline]_vars

\* C9 witness: after PUSH 7; PUSH 9; POP r0 the register holds 9 and the
\* stack is what it was before the second PUSH.
C9_Witness ==
    /\ last.op = POP
    /\ steps = 3
    /\ regs[0] = 9
    /\ stack = <<7>>
    /\ state = RUNNING

\* C10 (call): CALL at p with a valid operand pushes p+2, sets pc to
\* read(a) and leaves the machine RUNNING.
C10_Call ==
    (Decoded(CALL) /\ args[1] <= MAX_REG) =>
        /\ stack' = Append(stack, pc + 2)
        /\ pc' = readArg(args[1]).v
        /\ state' = RUNNING

\* C10 (return): RET on a non-empty stack sets pc to the top entry, removes
\* it and leaves the machine RUNNING; right after a CALL at p that is p+2.
C10_Ret ==
    /\ (Decoded(RET) /\ ~IsEmpty(stack)) =>
           /\ pc' = stack[Len(stack)]
           /\ stack' = SubSeq(stack, 1, Len(stack) - 1)
           /\ state' = RUNNING
    /\ (Decoded(RET) /\ last.op = CALL) =>
           /\ pc' = last.pc + 2
           /\ stack' = last.stack

\* C10: CALL at p pushes p+2 and jumps to read(a); a RET executed when the
\* stack is as that CALL left it sets pc to p+2, removes the entry and leaves
\* the machine RUNNING.
C10_CallThenRet == [][C10_Call /\ C10_Ret]_vars

\* C10 witness: CALL 3 at 0, RET at 3: back at 2 with the stack empty.
C10_Witness ==
    /\ memory = LoadImage(<<CALL, 3, HALT, RET>>)
    /\ last.op = RET
    /\ last.stack = <<2>>
    /\ pc = 2
    /\ stack = << >>
    /\ state = RUNNING

\* The instructions with a destination operand that C11 lists
DestOps == {SET, POP, EQ, GT, ADD, MULT, MOD, AND, OR, NOT, IN_OP}

\* Step executes an instruction of DestOps that has a result to store: POP
\* finds an element, MOD a non-zero divisor, IN a character
StoresResult ==
    /\ CanStep
    /\ FetchOK
    /\ op \in DestOps
    /\ getArgsOK(op)
    /\ op = POP => ~IsEmpty(stack)
    /\ op = MOD => readArg(args[3]).v # 0
    /\ op = IN_OP => Len(io'.stored) > Len(io.stored)

\* The result of the instruction at pc
Result ==
    LET b == IF argsForOp(op) >= 2 THEN readArg(args[2]).v ELSE 0
        c == IF argsForOp(op) >= 3 THEN readArg(args[3]).v ELSE 0
    IN CASE op = SET -> b
         [] op = POP -> stack[Len(stack)]
         [] op = EQ -> IF b = c THEN 1 ELSE 0
         [] op = GT -> IF b > c THEN 1 ELSE 0
         [] op = ADD -> (b + c) % 32768
         [] op = MULT -> (b * c) % 32768
         [] op = MOD -> b % c
         [] op = AND -> BitAnd(b, c)
         [] op = OR -> BitOr(b, c)
         [] op = NOT -> BitXor(b, MAX_15BIT)
         [] op = IN_OP -> io'.stored[Len(io'.stored)]

\* C11: for SET, POP, EQ, GT, ADD, MULT, MOD, AND, OR, NOT and IN, a
\* destination word in [32768,32775] stores the result in that register and
\* changes no memory cell; a destination word in [0,32767] stores it in
\* memory[word], changes no register, and the Step completes normally.
C11_WriteTarget ==
    [][StoresResult =>
         /\ isReg(args[1]) =>
                /\ panicked' = ""
                /\ regs' = [regs EXCEPT ![args[1] - (MAX_15BIT + 1)] = Result]
                /\ memory' = memory
         /\ args[1] <= MAX_15BIT =>
                /\ panicked' = ""
                /\ memory' = store(memory, args[1], Result)
                /\ regs' = regs
                /\ pc' = pc + 1 + argsForOp(op)]_vars

\* C11 (amended): as C11 for POP, EQ, GT, ADD, MULT, MOD, AND, OR, NOT and
\* IN; SET stores into a register only: with a destination word in
\* [0,32767] it stores nothing and the Step panics (index out of range).
C11_WriteTargetExceptSet ==
    [][StoresResult =>
         /\ args[1] \in RegisterWords =>
                /\ panicked' = ""
                /\ regs' = [regs EXCEPT ![args[1] - (MAX_15BIT + 1)] = Result]
                /\ memory' = memory
         /\ args[1] <= MAX_15BIT /\ op # SET =>
                /\ panicked' = ""
                /\ memory' = store(memory, args[1], Result)
                /\ regs' = regs
                /\ pc' = pc + 1 + argsForOp(op)
         /\ args[1] <= MAX_15BIT /\ op = SET =>
                /\ panicked' = "index out of range"
                /\ UNCHANGED <<memory, regs, pc>>]_vars

\* C11 witness: ADD with destination word 2 has stored 32767 + 32767 in
\* memory[2] and no register has changed.
C11_Witness ==
    /\ last.op = ADD
    /\ steps = 1
    /\ cell(memory, 1) = 2
    /\ cell(memory, 3) = 32767
    /\ cell(memory, 2) = 32766
    /\ regs = last.regs
    /\ pc = 4
    /\ panicked = ""

\* NOT of a value x in [0,32767] stores x XOR 32767, the 15-bit complement
\* 32767 - x, a value in [0,32767].
C12_NotComplement ==
    (/\ Decoded(NOT)
     /\ args[1] <= MAX_REG
     /\ readArg(args[2]).v <= MAX_15BIT) =>
        /\ panicked' = ""
        /\ DestAfter(args[1]) = MAX_15BIT - readArg(args[2]).v
        /\ DestAfter(args[1]) \in 0..MAX_15BIT

\* The operand word b of a NOT executed by the last Step and its value then
LastNotOperand == cell(memory, last.pc + 2)

LastNotValue ==
    IF LastNotOperand <= MAX_15BIT THEN LastNotOperand
    ELSE last.regs[LastNotOperand - (MAX_15BIT + 1)]

\* A NOT reading the register the previous NOT stored into yields the value
\* the previous NOT read.
C12_NotTwice ==
    (/\ steps >= 1
     /\ last.op = NOT
     /\ isReg(LastOperand)
     /\ LastNotOperand <= MAX_REG
     /\ LastNotValue <= MAX_15BIT
     /\ Decoded(NOT)
     /\ args[2] = LastOperand
     /\ args[1] <= MAX_REG) =>
        DestAfter(args[1]) = LastNotValue

\* C12: NOT is involutive on 15-bit values: for x in [0,32767] it stores
\* x XOR 32767, which is in [0,32767], and NOT of that result yields x.
C12_NotInvolutive == [][C12_NotComplement /\ C12_NotTwice]_vars

\* C12 witness: r0 := NOT 21845, r1 := NOT r0 has run; r1 is 21845 again.
C12_Witness ==
    /\ steps = 2
    /\ last.op = NOT
    /\ cell(memory, 2) = 21845
    /\ cell(memory, 4) = 32769
    /\ regs[0] = 10922
    /\ regs[1] = 21845
    /\ panicked = ""

\* NOOP changes the program counter, by one, and nothing else.
C14_Noop ==
    Decoded(NOOP) =>
        /\ pc' = pc + 1
        /\ panicked' = ""
        /\ UNCHANGED <<regs, memory, stack, state, output, unused_input>>

\* HALT changes the run state, to HALTED, and nothing else.
C14_Halt ==
    Decoded(HALT) =>
        /\ state' = HALTED
        /\ panicked' = ""
        /\ UNCHANGED <<regs, memory, stack, pc, output, unused_input>>

\* The image [21, 0]: it is RUNNING before its second Step and HALTED after
\* it, with nothing printed and every register zero.
C14_NoopHalt ==
    memory = LoadImage(<<NOOP, HALT>>) =>
        /\ steps <= 2
        /\ pc = (IF steps = 0 THEN 0 ELSE 1)
        /\ state = (IF steps = 2 THEN HALTED ELSE RUNNING)
        /\ panicked = ""
        /\ output = << >>
        /\ regs = [r \in 0..(NREGS - 1) |-> 0]
        /\ stack = NewStack

\* C14: NOOP changes nothing but the program counter (pc + 1); HALT changes
\* nothing but the run state; the image [21, 0] is HALTED after exactly two
\* Steps with empty output and memory and registers as initially.
C14_NoopAndHalt == []C14_NoopHalt /\ [][C14_Noop /\ C14_Halt]_vars

\* C14 witness: the image [21, 0] after its two Steps.
C14_Witness ==
    /\ memory = LoadImage(<<NOOP, HALT>>)
    /\ steps = 2
    /\ last.op = HALT
    /\ last.pc = 1
    /\ state = HALTED

\* What a Step has appended to the output
Appended == SubSeq(output', Len(output) + 1, Len(output'))

\* The output only grows
AppendOnly ==
    /\ Len(output') >= Len(output)
    /\ SubSeq(output', 1, Len(output)) = output

\* A character of the given code, as OUT prints it
Char(code) == [fmt |-> "%c", arg |-> code]

\* C15: each executed OUT appends exactly one character, whose code is the
\* low byte (value mod 256) of the value read, and no other instruction
\* appends a character to the output (read in the claim's favour: the
\* prompt and the error messages, which go to the same standard output, are
\* not counted).
C15_OutLowByte ==
    [][/\ (Decoded(OUT) /\ args[1] <= MAX_REG) =>
              output' = Append(output, Char(readArg(args[1]).v % 256))
       /\ (CanStep /\ ~Decoded(OUT)) =>
              \A i \in (Len(output) + 1)..Len(output') :
                  output'[i].fmt # "%c"]_vars

\* An OUT appends one character whose code is the code point read (U+FFFD
\* for a surrogate), after the message of an invalid operand.
C15_Out ==
    Decoded(OUT) =>
        LET v == readArg(args[1]).v IN
          /\ AppendOnly
          /\ args[1] <= MAX_REG =>
                 Appended = <<Char(IF v \in 55296..57343 THEN 65533 ELSE v)>>
          /\ args[1] > MAX_REG =>
                 Appended = <<InvalidArgument(args[1]), Char(0)>>

\* Any other Step appends no character: only the prompt of an IN that
\* refills the buffer and the messages of m.Error.
C15_Others ==
    (CanStep /\ ~Decoded(OUT)) =>
        /\ AppendOnly
        /\ \A i \in 1..Len(Appended) : Appended[i].fmt # "%c"
        /\ (\E i \in 1..Len(Appended) : Appended[i] = Prompt) =>
               Decoded(IN_OP) /\ Len(unused_input) = 0

\* The image [9, 32768, 32769, 4, 19, 32768, 0]: one character of code 4 is
\* printed by the second Step and the third Step halts.
C15_AddOut ==
    memory = LoadImage(<<ADD, 32768, 32769, 4, OUT, 32768, 0>>) =>
        /\ steps <= 3
        /\ panicked = ""
        /\ output = (IF steps < 2 THEN << >> ELSE <<Char(4)>>)
        /\ state = (IF steps = 3 THEN HALTED ELSE RUNNING)

\* C15 (amended): each executed OUT appends exactly one character, in
\* program order, whose code is the value read (not reduced modulo 256);
\* the other instructions append no character, only the prompt of IN and
\* error messages; the image [9, 32768, 32769, 4, 19, 32768, 0] prints one
\* character of code 4 and is then HALTED.
C15_OutCodePoint == []C15_AddOut /\ [][C15_Out /\ C15_Others]_vars

\* C15 witness: r0 := 300 followed by OUT r0 has printed the character 300.
C15_Witness ==
    /\ steps = 2
    /\ last.op = OUT
    /\ last.regs[0] = 300
    /\ cell(memory, 4) = 32768
    /\ output = <<Char(300)>>

\* The runes a Step has read from the input source
Supplied == SubSeq(io'.supplied, Len(io.supplied) + 1, Len(io'.supplied))

\* The input source is read only by an IN that finds the buffer empty, and
\* only IN changes the buffer.
C16_RefillWhenEmpty ==
    /\ io'.supplied # io.supplied => Decoded(IN_OP) /\ Len(unused_input) = 0
    /\ (CanStep /\ ~Decoded(IN_OP)) => UNCHANGED <<unused_input, io>>

\* An IN that completes removes the first entry of the buffer, refilled if
\* it was empty, and that entry is what it stores.
C16_RemovesFront ==
    (Decoded(IN_OP) /\ panicked' = "") =>
        /\ Len(io'.stored) = Len(io.stored) + 1
        /\ args[1] <= MAX_REG =>
               DestAfter(args[1]) = io'.stored[Len(io'.stored)]
        /\ Len(unused_input) > 0 =>
               /\ unused_input' = Tail(unused_input)
               /\ io'.stored = Append(io.stored, unused_input[1])
        /\ Len(unused_input) = 0 =>
               /\ Len(unused_input') = Len(Supplied) - 1
               /\ \A i \in 1..(Len(Supplied) - 1) : Supplied[i] # NEWLINE
               /\ Supplied[Len(Supplied)] = NEWLINE \/ stdin_eof'

\* C16: the sequence of values stored by IN is, element by element, the
\* sequence of character codes supplied by the input source (read in the
\* claim's favour: an IN that finds the source at its end is not counted).
C16_StoredIsSupplied ==
    /\ Len(io.stored) <= Len(io.supplied)
    /\ \A i \in 1..Len(io.stored) : io.stored[i] = io.supplied[i]

\* The values stored so far followed by the buffer are the codes supplied so
\* far, each reduced modulo 65536.
C16_StoredIsSuppliedMod ==
    io.stored \o unused_input =
        [i \in 1..Len(io.supplied) |-> io.supplied[i] % UINT16]

\* An IN that finds the buffer empty and the source at its end stores
\* nothing and panics.
C16_NothingToRead ==
    (Decoded(IN_OP) /\ Len(unused_input) = 0 /\ io'.supplied = io.supplied) =>
        /\ panicked' = "index out of range"
        /\ UNCHANGED <<regs, memory, pc, state, unused_input>>
        /\ io'.stored = io.stored

\* C16 (amended): the pending input buffer is FIFO: a line is read only when
\* IN executes with an empty buffer; each completed IN removes exactly one
\* entry from the front and stores it; the stored sequence is the sequence
\* of supplied codes, each modulo 65536; an IN with nothing left to read
\* stores nothing and panics.
C16_Fifo ==
    /\ []C16_StoredIsSuppliedMod
    /\ [][C16_RefillWhenEmpty /\ C16_RemovesFront /\ C16_NothingToRead]_vars

\* C16 witness: two INs have stored U+10041, as 65, and the newline after it.
C16_Witness ==
    /\ Len(io.stored) = 2
    /\ io.supplied = <<65601, NEWLINE>>
    /\ io.stored = <<65, NEWLINE>>
    /\ unused_input = << >>
    /\ last.op = IN_OP
    /\ panicked = ""

\* The instructions that C17 lists as not transferring control
SequentialOps ==
    {SET, PUSH, POP, EQ, GT, ADD, MULT, MOD, AND, OR, NOT, RMEM, WMEM, OUT,
     IN_OP, NOOP}

\* The Step executes a conditional jump whose condition holds
Taken ==
    \/ Decoded(JT) /\ readArg(args[1]).v # 0
    \/ Decoded(JF) /\ readArg(args[1]).v = 0

\* The Step executes an instruction of SequentialOps or a conditional jump
\* whose condition does not hold, and reaches the end of Step
Sequential ==
    /\ CanStep /\ FetchOK /\ getArgsOK(op)
    /\ op \in SequentialOps \/ (op \in {JT, JF} /\ ~Taken)
    /\ ~(op = POP /\ IsEmpty(stack))
    /\ panicked' = ""

\* The Step executes JMP, CALL or a taken conditional jump
Transfer == Decoded(JMP) \/ Decoded(CALL) \/ Taken

\* The operand word that holds the target of a transfer
TargetWord == IF op \in {JT, JF} THEN args[2] ELSE args[1]

\* C17: after a completed instruction that does not transfer control, or an
\* untaken JT/JF, pc is the old pc + 1 + the operand count; after JMP, a
\* taken JT/JF or CALL, with a valid target operand, pc is the resolved
\* target; pc changes in no other way (read in the claim's favour: the Step
\* of an unknown opcode is not counted).
C17_PcOnlyByThese ==
    [][/\ Sequential => pc' = pc + 1 + argsForOp(op)
       /\ (Transfer /\ TargetWord <= MAX_REG) => pc' = readArg(TargetWord).v
       /\ (pc' # pc /\ op <= NOOP) => Sequential \/ Transfer]_vars

\* pc after every kind of Step
C17_Pc ==
    CanStep =>
        /\ Sequential => pc' = pc + 1 + argsForOp(op)
        /\ Transfer => pc' = readArg(TargetWord).v
        /\ (Transfer /\ TargetWord > MAX_REG) => pc' = 0
        /\ (Decoded(RET) /\ ~IsEmpty(stack)) => pc' = stack[Len(stack)]
        /\ (FetchOK /\ op > NOOP /\ panicked' = "") => pc' = pc + 1
        /\ pc' # pc =>
               \/ Sequential
               \/ Transfer
               \/ Decoded(RET) /\ ~IsEmpty(stack)
               \/ FetchOK /\ op > NOOP

\* C17 (amended): as C17, and besides: RET with a non-empty stack sets pc
\* to the value popped; the Step of an unknown opcode advances pc by one; a
\* transfer whose target operand is invalid sets pc to 0; HALT, POP and RET
\* on an empty stack and a Step that panics leave pc unchanged.
C17_PcUpdate == [][C17_Pc]_vars

\* C17 witness: PUSH 0 followed by RET has set pc to the value popped.
C17_Witness ==
    /\ last.op = RET
    /\ last.pc = 2
    /\ last.stack = <<0>>
    /\ pc = 0
    /\ state = RUNNING

\* C18: a Step of SET, POP, EQ, GT, ADD, MULT, MOD, AND, OR, NOT, RMEM or IN
\* whose destination operand is 32776 or more ends in ERROR, without a
\* panic, and writes no register and no memory cell.
C18_InvalidDestErrors ==
    [][(/\ CanStep /\ FetchOK /\ getArgsOK(op)
        /\ op \in DestOps \cup {RMEM}
        /\ args[1] > MAX_REG) =>
           /\ state' = ERROR
           /\ panicked' = ""
           /\ regs' = regs
           /\ memory' = memory]_vars

\* C19: a Step of MOD whose divisor resolves to 0 ends in ERROR, without a
\* panic, and does not write the destination.
C19_ModByZeroErrors ==
    [][(Decoded(MOD) /\ readArg(args[3]).v = 0) =>
           /\ state' = ERROR
           /\ panicked' = ""
           /\ regs' = regs
           /\ memory' = memory]_vars

\* C20: pc stays in [0,32767] and the fetch of the opcode and of its
\* operands stays within the words 0..32767.
C20_FetchInBounds ==
    /\ pc \in 0..MAX_15BIT
    /\ (~Halted /\ panicked = "") => getArgsOK(op)
    /\ panicked # "slice bounds out of range"

===========================================================================
